---------------------------- MODULE Spec2Model ----------------------------
(***************************************************************************)
(* Excel image extractor (src/app.py): the image-extraction core.          *)
(*                                                                         *)
(* extract_images_from_excel classifies the container from its leading     *)
(* bytes (with a filename-extension fallback) and either walks the         *)
(* workbook's declared images (extract_images_from_xlsx) or scans the raw  *)
(* bytes for image signatures (extract_images_from_xls: first              *)
(* extract_images_from_ole, then extract_images_from_xls_raw when the      *)
(* first scan returned nothing).                                           *)
(*                                                                         *)
(* Byte strings are sequences of 0..255.  Offsets are 0-based as in the    *)
(* Python source; a sequence element at offset p is s[p + 1].              *)
(* The workbook object openpyxl builds from the bytes is an input of the   *)
(* model (wb): the library is outside the repository.  Pixel dimensions    *)
(* (get_image_dimensions, PIL) are not part of the state.                  *)
(***************************************************************************)
EXTENDS Integers, Sequences, FiniteSets, TLC

(***************************************************************************)
(* Bounds of the model.                                                    *)
(***************************************************************************)
\* number of pieces a scanned container body is assembled from
MaxPieces == 3
\* length of a padding run / of the body of a small embedded image
PadLen == 100
\* length of the body of the large embedded GIF
BodyLen == 200
\* number of padding runs before, between and after two embedded images
MaxPad == 2
\* number of images declared on one sheet of a workbook
MaxImgs == 2

(***************************************************************************)
(* Program constants.                                                      *)
(***************************************************************************)
\* extract_images_from_ole: "if len(img_data) > 100"
MinSizeOle == 100
\* extract_images_from_xls_raw: "len(img_data) > 200"
MinSizeRaw == 200
\* the PNG end boundary: "iend_pos + 12"
PngEndSkip == 12
\* the JPEG end boundary: "end_pos + 2"
JpegEndSkip == 2
\* extract_images_from_ole: the GIF trailer search starts at "pos + 6"
OleGifSkip == 6
\* extract_image_by_format: the GIF trailer search starts at "start_pos + 10"
RawGifSkip == 10
\* get_anchor_cell: "chr(65 + col)"
ColBase == 65

(***************************************************************************)
(* Byte strings of the source.                                             *)
(***************************************************************************)
\* b'\x89PNG\r\n\x1a\n'
png_signature == <<137, 80, 78, 71, 13, 10, 26, 10>>
\* b'\xff\xd8\xff'
jpeg_signature == <<255, 216, 255>>
\* b'GIF87a'
gif_signature1 == <<71, 73, 70, 56, 55, 97>>
\* b'GIF89a'
gif_signature2 == <<71, 73, 70, 56, 57, 97>>
\* b'IEND'
IendMarker == <<73, 69, 78, 68>>
\* b'\xff\xd9'
end_marker == <<255, 217>>
\* b'\x3b'
GifTrailer == <<59>>
\* b'PK\x03\x04'
ZipMagic == <<80, 75, 3, 4>>
\* b'\xd0\xcf\x11\xe0\xa1\xb1\x1a\xe1'
OleMagic == <<208, 207, 17, 224, 161, 177, 26, 225>>
\* '.xlsx' and '.xls'
ExtXlsx == <<46, 120, 108, 115, 120>>
ExtXls == <<46, 120, 108, 115>>

\* Python's None where a byte string or a cell reference is expected
None == <<-1>>

(***************************************************************************)
(* Python primitives.                                                      *)
(***************************************************************************)
MinOf(S) == CHOOSE x \in S : \A y \in S : x <= y

\* s[a:b] for 0 <= a, 0 <= b: clamped at the end of s
Slice(s, a, b) == SubSeq(s, a + 1, IF b < Len(s) THEN b ELSE Len(s))

\* sub occurs in s at offset p
MatchesAt(s, sub, p) ==
    /\ p >= 0
    /\ p + Len(sub) <= Len(s)
    /\ \A k \in 1..Len(sub) : s[p + k] = sub[k]

\* s.find(sub, start) for a non-empty sub: the least offset >= start where
\* sub occurs, or -1 (the first byte is compared before the rest)
Find(s, sub, start) ==
    LET hits == {p \in start..(Len(s) - Len(sub)) :
                    s[p + 1] = sub[1] /\ MatchesAt(s, sub, p)}
    IN  IF hits = {} THEN -1 ELSE MinOf(hits)

\* s.rfind(sub, start): the greatest such offset, or -1
FindLast(s, sub, start) ==
    LET hits == {p \in start..(Len(s) - Len(sub)) :
                    s[p + 1] = sub[1] /\ MatchesAt(s, sub, p)}
    IN  IF hits = {} THEN -1 ELSE CHOOSE x \in hits : \A y \in hits : y <= x

\* s[:n] == prefix
StartsWith(s, prefix) == Slice(s, 0, Len(prefix)) = prefix

\* s.endswith(suffix)
EndsWith(s, suffix) ==
    /\ Len(suffix) <= Len(s)
    /\ SubSeq(s, Len(s) - Len(suffix) + 1, Len(s)) = suffix

\* str.lower() on ASCII code points
Lower(s) == [i \in 1..Len(s) |-> IF s[i] >= 65 /\ s[i] <= 90 THEN s[i] + 32 ELSE s[i]]

\* str(n) for n >= 0, as code points
RECURSIVE Digits(_)
Digits(n) == IF n < 10 THEN <<48 + n>> ELSE Digits(n \div 10) \o <<48 + (n % 10)>>

\* one character of the base64 alphabet
B64Char(v) ==
    IF v < 26 THEN 65 + v
    ELSE IF v < 52 THEN 97 + (v - 26)
    ELSE IF v < 62 THEN 48 + (v - 52)
    ELSE IF v = 62 THEN 43 ELSE 47

\* base64.b64encode(d).decode('utf-8'), as code points ('=' is 61)
B64Encode(d) ==
    LET n == Len(d)
        At(i) == IF i <= n THEN d[i] ELSE 0
        Group(g) == At(3 * g + 1) * 65536 + At(3 * g + 2) * 256 + At(3 * g + 3)
        Sextet(g, k) ==
            IF k = 0 THEN Group(g) \div 262144
            ELSE IF k = 1 THEN (Group(g) \div 4096) % 64
            ELSE IF k = 2 THEN (Group(g) \div 64) % 64
            ELSE Group(g) % 64
        Char(g, k) ==
            IF k = 2 /\ 3 * g + 2 > n THEN 61
            ELSE IF k = 3 /\ 3 * g + 3 > n THEN 61
            ELSE B64Char(Sextet(g, k))
    IN  [i \in 1..(4 * ((n + 2) \div 3)) |-> Char((i - 1) \div 4, (i - 1) % 4)]

\* the number of bytes a base64 text decodes to
B64DecodedLen(t) ==
    LET n == Len(t)
        pads == IF n = 0 THEN 0
                ELSE IF t[n] # 61 THEN 0
                ELSE IF t[n - 1] # 61 THEN 1 ELSE 2
    IN  3 * (n \div 4) - pads

(***************************************************************************)
(* detect_excel_format, detect_image_format, get_anchor_cell,              *)
(* create_image_entry.                                                     *)
(***************************************************************************)
detect_excel_format(bytes) ==
    IF StartsWith(bytes, ZipMagic) THEN "xlsx"
    ELSE IF StartsWith(bytes, OleMagic) THEN "xls"
    ELSE "None"

detect_image_format(img_data) ==
    IF StartsWith(img_data, png_signature) THEN "png"
    ELSE IF StartsWith(img_data, <<255, 216>>) THEN "jpeg"
    ELSE IF StartsWith(img_data, <<71, 73, 70, 56>>) THEN "gif"
    ELSE IF /\ StartsWith(img_data, <<82, 73, 70, 70>>)
            /\ Len(img_data) > 12
            /\ Slice(img_data, 8, 12) = <<87, 69, 66, 80>> THEN "webp"
    ELSE IF StartsWith(img_data, <<66, 77>>) THEN "bmp"
    ELSE "png"

\* an anchor is None (no anchor / no _from) or <<col, row>>
get_anchor_cell(anchor) ==
    IF anchor = None THEN None
    ELSE <<ColBase + anchor[1]>> \o Digits(anchor[2] + 1)

\* a slip: size_bytes taken from the encoded text instead of the payload
create_image_entry_b64len(img_data, img_format, index) ==
    [index      |-> index,
     sheet      |-> "unknown",
     cell       |-> None,
     format     |-> img_format,
     mime_type  |-> <<"image/", img_format>>,
     size_bytes |-> Len(B64Encode(img_data)),
     base64     |-> B64Encode(img_data)]

create_image_entry(img_data, img_format, index) ==
    [index      |-> index,
     sheet      |-> "unknown",
     cell       |-> None,
     format     |-> img_format,
     mime_type  |-> <<"image/", img_format>>,
     size_bytes |-> Len(img_data),
     base64     |-> B64Encode(img_data)]

\* the data_uri field of a record: f'data:{mime_type};base64,{base64}'
DataUri(rec) == <<"data:", rec.mime_type, ";base64,", rec.base64>>

(***************************************************************************)
(* The signature scan: end-boundary rules.                                 *)
(***************************************************************************)
\* a slip: the last IEND of the container instead of the first after pos
OlePngData_last(data, pos) ==
    LET iend_pos == FindLast(data, IendMarker, pos)
    IN  IF iend_pos # -1 THEN Slice(data, pos, iend_pos + PngEndSkip) ELSE None

\* extract_images_from_ole, PNG loop: file_bytes[pos:iend_pos + 12]
OlePngData(data, pos) ==
    LET iend_pos == Find(data, IendMarker, pos)
    IN  IF iend_pos # -1 THEN Slice(data, pos, iend_pos + PngEndSkip) ELSE None

\* extract_images_from_ole, JPEG loop: file_bytes[pos:end_pos + 2]
OleJpegData(data, pos) ==
    LET end_pos == Find(data, end_marker, pos)
    IN  IF end_pos # -1 THEN Slice(data, pos, end_pos + JpegEndSkip) ELSE None

\* extract_images_from_ole, GIF loops: file_bytes[pos:end_pos + 1]
OleGifData(data, pos) ==
    LET end_pos == Find(data, GifTrailer, pos + OleGifSkip)
    IN  IF end_pos # -1 THEN Slice(data, pos, end_pos + 1) ELSE None

\* the four scan loops of extract_images_from_ole, in source order
OleSignatures == <<png_signature, jpeg_signature, gif_signature1, gif_signature2>>
OleFormats == <<"png", "jpeg", "gif", "gif">>

OleImgData(data, pos, p) ==
    IF p = 1 THEN OlePngData(data, pos)
    ELSE IF p = 2 THEN OleJpegData(data, pos)
    ELSE OleGifData(data, pos)

\* the signatures list of extract_images_from_xls_raw, in source order
RawSignatures ==
    <<png_signature,
      <<255, 216, 255, 224>>,
      <<255, 216, 255, 225>>,
      <<255, 216, 255, 219>>,
      gif_signature2,
      gif_signature1>>
RawFormats == <<"png", "jpeg", "jpeg", "jpeg", "gif", "gif">>

extract_image_by_format(data, start_pos, fmt) ==
    IF fmt = "png" THEN
        LET iend == Find(data, IendMarker, start_pos)
        IN  IF iend # -1 THEN Slice(data, start_pos, iend + PngEndSkip) ELSE None
    ELSE IF fmt = "jpeg" THEN
        LET end == Find(data, end_marker, start_pos)
        IN  IF end # -1 THEN Slice(data, start_pos, end + JpegEndSkip) ELSE None
    ELSE IF fmt = "gif" THEN
        LET end == Find(data, GifTrailer, start_pos + RawGifSkip)
        IN  IF end # -1 THEN Slice(data, start_pos, end + 1) ELSE None
    ELSE None

\* a slip: the size test left out
OleAccepts_nofloor(img_data) == img_data # None

\* a slip: one zero too many in the first scan's floor
OleAccepts_strict(img_data) == img_data # None /\ Len(img_data) > 10 * MinSizeOle

\* "if len(img_data) > 100" of extract_images_from_ole
OleAccepts(img_data) == img_data # None /\ Len(img_data) > MinSizeOle

\* a slip: the search resumes after the accepted image instead of at pos + 1
OleNextOffset_skip(pos, img_data) ==
    IF OleAccepts(img_data) THEN pos + Len(img_data) ELSE pos + 1

\* "offset = pos + 1" at the end of each loop body of extract_images_from_ole
OleNextOffset(pos, img_data) == pos + 1

\* "if img_data and len(img_data) > 200" of extract_images_from_xls_raw
RawAccepts(img_data) ==
    img_data # None /\ Len(img_data) > 0 /\ Len(img_data) > MinSizeRaw

(***************************************************************************)
(* Inputs.                                                                 *)
(***************************************************************************)
Fill(n, b) == [i \in 1..n |-> b]

SeqsUpTo(S, n) == UNION {[1..k -> S] : k \in 0..n}

\* a complete IEND chunk: length 0, type, CRC
IendChunk == <<0, 0, 0, 0>> \o IendMarker \o <<174, 66, 96, 130>>
\* well-formed images: start signature through the last byte of the image
PngImage == png_signature \o Fill(PadLen, 17) \o IendChunk
JpegImage == jpeg_signature \o <<224>> \o Fill(PadLen, 17) \o end_marker
Gif87Image ==
    gif_signature1 \o <<10, 0, 10, 0, 0, 0, 0>> \o Fill(PadLen, 17) \o GifTrailer
\* a GIF whose logical screen is 59 pixels wide: 0x3B right after the signature
Gif89Image ==
    gif_signature2 \o <<59, 0, 10, 0, 0, 0, 0>> \o Fill(BodyLen, 17) \o GifTrailer
Padding == Fill(PadLen, 0)

Pieces ==
    {"PNG", "JPEG", "GIF87", "GIF89", "pngsig", "gif89sig", "iend", "trailer", "pad"}

PieceBytes(name) ==
    CASE name = "PNG" -> PngImage
      [] name = "JPEG" -> JpegImage
      [] name = "GIF87" -> Gif87Image
      [] name = "GIF89" -> Gif89Image
      [] name = "pngsig" -> png_signature
      [] name = "gif89sig" -> gif_signature2
      [] name = "iend" -> IendChunk
      [] name = "trailer" -> GifTrailer
      [] name = "pad" -> Padding

RECURSIVE Flatten(_)
Flatten(layout) ==
    IF layout = <<>> THEN <<>> ELSE PieceBytes(Head(layout)) \o Flatten(Tail(layout))

\* n padding runs
RECURSIVE Pads(_)
Pads(n) == IF n = 0 THEN <<>> ELSE Padding \o Pads(n - 1)

\* one PNG and one JPEG with padding before, between and after them
EmbeddedBodies ==
    {Pads(a) \o x[1] \o Pads(b) \o x[2] \o Pads(c) :
        a \in 1..MaxPad, b \in 1..MaxPad, c \in 1..MaxPad,
        x \in {<<PngImage, JpegImage>>, <<JpegImage, PngImage>>}}

\* 'book.xlsx', 'BOOK.XLS', 'book.bin'
NameXlsx == <<98, 111, 111, 107>> \o ExtXlsx
NameXlsUpper == <<66, 79, 79, 75, 46, 88, 76, 83>>
NameBin == <<98, 111, 111, 107, 46, 98, 105, 110>>
Filenames == {NameXlsx, NameXlsUpper, NameBin}

\* leading bytes: archive marker, compound-document marker, neither
Headers == {ZipMagic, OleMagic, <<0, 0, 0, 0>>}

\* images as openpyxl exposes them: where the bytes come from, and the anchor
SmallPng == png_signature \o <<0, 1, 2>>
SmallJpeg == <<255, 216, 255, 224, 1>>
SmallGif == <<71, 73, 70, 56, 57, 97, 1>>
ImageParts ==
    {[via |-> "data", raises |-> FALSE, bytes |-> SmallPng, blob |-> None,
      anchor |-> <<0, 0>>],
     [via |-> "data", raises |-> TRUE, bytes |-> None, blob |-> None,
      anchor |-> <<0, 0>>],
     [via |-> "ref", raises |-> FALSE, bytes |-> SmallJpeg, blob |-> None,
      anchor |-> None],
     [via |-> "none", raises |-> FALSE, bytes |-> None, blob |-> SmallGif,
      anchor |-> <<25, 9>>],
     [via |-> "data", raises |-> FALSE, bytes |-> <<>>, blob |-> None,
      anchor |-> <<1, 0>>],
     [via |-> "data", raises |-> FALSE, bytes |-> SmallPng, blob |-> None,
      anchor |-> <<26, 0>>]}

SheetNames == <<"Sheet1", "Sheet2">>

\* what load_workbook makes of the bytes: it raises, or a workbook whose
\* sheets each carry a list of images
NoWorkbook == [loads |-> FALSE, sheets |-> <<>>]
Workbooks ==
    {[loads |-> TRUE, sheets |-> s] :
        s \in UNION {[1..k -> SeqsUpTo(ImageParts, MaxImgs)] : k \in 1..Len(SheetNames)}}
EmptyWorkbook == [loads |-> TRUE, sheets |-> <<<<>>>>]
OneImageWorkbook ==
    [loads |-> TRUE, sheets |-> <<<<CHOOSE im \in ImageParts :
        im.via = "ref">>>>]

\* compound documents to scan
ScanInputs ==
    {[file_bytes |-> OleMagic \o body, filename |-> NameXlsUpper, wb |-> NoWorkbook] :
        body \in {Flatten(l) : l \in SeqsUpTo(Pieces, MaxPieces)} \cup EmbeddedBodies}

\* archives with a workbook inside
WorkbookInputs ==
    {[file_bytes |-> ZipMagic, filename |-> NameXlsx, wb |-> w] : w \in Workbooks}

\* every leading marker under every filename hint
RoutingInputs ==
    {[file_bytes |-> h \o body, filename |-> f, wb |-> w] :
        h \in Headers, f \in Filenames,
        body \in {<<>>, PngImage, Gif89Image},
        w \in {NoWorkbook, EmptyWorkbook, OneImageWorkbook}}

(***************************************************************************)
(* State.                                                                  *)
(***************************************************************************)
VARIABLES
    file_bytes,       \* the container's bytes
    filename,         \* the filename hint
    wb,               \* the workbook load_workbook returns for these bytes
    pc,               \* "start", "load", "xlsx", "ole", "raw", "done", "raised"
    file_format,      \* extract_images_from_excel's file_format
    images,           \* the record list being built
    pass,             \* index of the signature loop being run
    offset,           \* the loop's search offset
    found_positions,  \* extract_images_from_xls_raw's found_positions
    sheet_i,          \* extract_images_from_xlsx: position in wb.sheetnames
    img_j,            \* extract_images_from_xlsx: position in sheet._images
    ranges,           \* history: for each scanned record, where it came from
    considered        \* history: the signature matches the loops visited

vars ==
    <<file_bytes, filename, wb, pc, file_format, images, pass, offset,
      found_positions, sheet_i, img_j, ranges, considered>>

InitWith(inputs) ==
    /\ \E in \in inputs :
        /\ file_bytes = in.file_bytes
        /\ filename = in.filename
        /\ wb = in.wb
    /\ pc = "start"
    /\ file_format = "None"
    /\ images = <<>>
    /\ pass = 1
    /\ offset = 0
    /\ found_positions = {}
    /\ sheet_i = 1
    /\ img_j = 1
    /\ ranges = <<>>
    /\ considered = <<>>

Init == InitWith(ScanInputs \cup WorkbookInputs \cup RoutingInputs)
InitScan == InitWith(ScanInputs)
InitXlsx == InitWith(WorkbookInputs \cup RoutingInputs)

(***************************************************************************)
(* extract_images_from_excel: classification and dispatch.                 *)
(***************************************************************************)
\* a slip: the last resort is the scanner instead of the archive reader
ResolveFormat_xlsdefault(bytes, name) ==
    LET detected == detect_excel_format(bytes)
    IN  IF detected # "None" THEN detected
        ELSE IF EndsWith(Lower(name), ExtXlsx) THEN "xlsx"
        ELSE "xls"

ResolveFormat(bytes, name) ==
    LET detected == detect_excel_format(bytes)
    IN  IF detected # "None" THEN detected
        ELSE IF EndsWith(Lower(name), ExtXlsx) THEN "xlsx"
        ELSE IF EndsWith(Lower(name), ExtXls) THEN "xls"
        ELSE "xlsx"

Dispatch ==
    /\ pc = "start"
    /\ file_format' = ResolveFormat(file_bytes, filename)
    /\ pc' = IF file_format' = "xlsx" THEN "load" ELSE "ole"
    /\ UNCHANGED <<file_bytes, filename, wb, images, pass, offset,
                   found_positions, sheet_i, img_j, ranges, considered>>

(***************************************************************************)
(* extract_images_from_xlsx.                                               *)
(***************************************************************************)
\* load_workbook(tmp_path): an exception leaves extract_images_from_excel
XlsxLoad ==
    /\ pc = "load"
    /\ pc' = IF wb.loads THEN "xlsx" ELSE "raised"
    /\ UNCHANGED <<file_bytes, filename, wb, file_format, images, pass, offset,
                   found_positions, sheet_i, img_j, ranges, considered>>

\* img_data after the _data / ref / _blob lookups
ImageData(img) ==
    LET first == IF img.via \in {"data", "ref"} THEN img.bytes ELSE None
    IN  IF first = None THEN img.blob ELSE first

\* "if img_data:" with no exception raised on the way
Readable(img) ==
    /\ ~img.raises
    /\ ImageData(img) # None
    /\ Len(ImageData(img)) > 0

XlsxEntry(img, sheet_name, index) ==
    LET img_data == ImageData(img)
        img_format == detect_image_format(img_data)
    IN  [index      |-> index,
         sheet      |-> sheet_name,
         cell       |-> get_anchor_cell(img.anchor),
         format     |-> img_format,
         mime_type  |-> <<"image/", img_format>>,
         size_bytes |-> Len(img_data),
         base64     |-> B64Encode(img_data)]

\* one iteration of "for idx, img in enumerate(sheet._images)"
XlsxImage ==
    /\ pc = "xlsx"
    /\ sheet_i <= Len(wb.sheets)
    /\ img_j <= Len(wb.sheets[sheet_i])
    /\ LET img == wb.sheets[sheet_i][img_j]
       IN  images' = IF Readable(img)
                     THEN Append(images, XlsxEntry(img, SheetNames[sheet_i], Len(images)))
                     ELSE images
    /\ img_j' = img_j + 1
    /\ UNCHANGED <<file_bytes, filename, wb, pc, file_format, pass, offset,
                   found_positions, sheet_i, ranges, considered>>

\* the sheet's images are exhausted: next of "for sheet_name in wb.sheetnames"
XlsxNextSheet ==
    /\ pc = "xlsx"
    /\ sheet_i <= Len(wb.sheets)
    /\ img_j > Len(wb.sheets[sheet_i])
    /\ sheet_i' = sheet_i + 1
    /\ img_j' = 1
    /\ UNCHANGED <<file_bytes, filename, wb, pc, file_format, images, pass, offset,
                   found_positions, ranges, considered>>

\* a slip: an archive without images falls through to the signature scan
XlsxReturn_fallback ==
    /\ pc = "xlsx"
    /\ sheet_i > Len(wb.sheets)
    /\ pc' = IF images = <<>> THEN "ole" ELSE "done"
    /\ UNCHANGED <<file_bytes, filename, wb, file_format, images, pass, offset,
                   found_positions, sheet_i, img_j, ranges, considered>>

\* "return images"
XlsxReturn ==
    /\ pc = "xlsx"
    /\ sheet_i > Len(wb.sheets)
    /\ pc' = "done"
    /\ UNCHANGED <<file_bytes, filename, wb, file_format, images, pass, offset,
                   found_positions, sheet_i, img_j, ranges, considered>>

(***************************************************************************)
(* extract_images_from_ole, then extract_images_from_xls.                  *)
(***************************************************************************)
Visit(method, p, pos) == [method |-> method, pass |-> p, pos |-> pos]

Origin(method, p, fmt, pos, img_data) ==
    [method |-> method, pass |-> p, format |-> fmt,
     start |-> pos, end |-> pos + Len(img_data)]

\* one iteration of a "while True" loop in which find() succeeds
OleFound ==
    /\ pc = "ole"
    /\ pass <= Len(OleSignatures)
    /\ LET pos == Find(file_bytes, OleSignatures[pass], offset)
           img_data == OleImgData(file_bytes, pos, pass)
       IN  /\ pos # -1
           /\ IF OleAccepts(img_data)
              THEN /\ images' = Append(images,
                        create_image_entry(img_data, OleFormats[pass], Len(images)))
                   /\ ranges' = Append(ranges,
                        Origin("ole", pass, OleFormats[pass], pos, img_data))
              ELSE UNCHANGED <<images, ranges>>
           /\ considered' = Append(considered, Visit("ole", pass, pos))
           /\ offset' = OleNextOffset(pos, img_data)
    /\ UNCHANGED <<file_bytes, filename, wb, pc, file_format, pass,
                   found_positions, sheet_i, img_j>>

\* find() returns -1: "break", and the next loop starts at offset 0
OlePassEnd ==
    /\ pc = "ole"
    /\ pass <= Len(OleSignatures)
    /\ Find(file_bytes, OleSignatures[pass], offset) = -1
    /\ pass' = pass + 1
    /\ offset' = 0
    /\ UNCHANGED <<file_bytes, filename, wb, pc, file_format, images,
                   found_positions, sheet_i, img_j, ranges, considered>>

\* extract_images_from_ole returns; extract_images_from_xls: "if not images"
OleReturn ==
    /\ pc = "ole"
    /\ pass > Len(OleSignatures)
    /\ pc' = IF images = <<>> THEN "raw" ELSE "done"
    /\ pass' = 1
    /\ offset' = 0
    /\ UNCHANGED <<file_bytes, filename, wb, file_format, images,
                   found_positions, sheet_i, img_j, ranges, considered>>

(***************************************************************************)
(* extract_images_from_xls_raw.                                            *)
(***************************************************************************)
RawFound ==
    /\ pc = "raw"
    /\ pass <= Len(RawSignatures)
    /\ LET pos == Find(file_bytes, RawSignatures[pass], offset)
           fmt == RawFormats[pass]
           img_data == extract_image_by_format(file_bytes, pos, fmt)
       IN  /\ pos # -1
           /\ IF pos \in found_positions
              THEN UNCHANGED <<images, ranges, found_positions>>
              ELSE /\ found_positions' = found_positions \cup {pos}
                   /\ IF RawAccepts(img_data)
                      THEN /\ images' = Append(images,
                                create_image_entry(img_data, fmt, Len(images)))
                           /\ ranges' = Append(ranges,
                                Origin("raw", pass, fmt, pos, img_data))
                      ELSE UNCHANGED <<images, ranges>>
           /\ considered' = Append(considered, Visit("raw", pass, pos))
           /\ offset' = pos + 1
    /\ UNCHANGED <<file_bytes, filename, wb, pc, file_format, pass,
                   sheet_i, img_j>>

RawPassEnd ==
    /\ pc = "raw"
    /\ pass <= Len(RawSignatures)
    /\ Find(file_bytes, RawSignatures[pass], offset) = -1
    /\ pass' = pass + 1
    /\ offset' = 0
    /\ UNCHANGED <<file_bytes, filename, wb, pc, file_format, images,
                   found_positions, sheet_i, img_j, ranges, considered>>

\* "return images"
RawReturn ==
    /\ pc = "raw"
    /\ pass > Len(RawSignatures)
    /\ pc' = "done"
    /\ UNCHANGED <<file_bytes, filename, wb, file_format, images, pass, offset,
                   found_positions, sheet_i, img_j, ranges, considered>>

Next ==
    \/ Dispatch
    \/ XlsxLoad
    \/ XlsxImage
    \/ XlsxNextSheet
    \/ XlsxReturn
    \/ OleFound
    \/ OlePassEnd
    \/ OleReturn
    \/ RawFound
    \/ RawPassEnd
    \/ RawReturn

NextScan ==
    \/ Dispatch
    \/ OleFound
    \/ OlePassEnd
    \/ OleReturn
    \/ RawFound
    \/ RawPassEnd
    \/ RawReturn

Spec == Init /\ [][Next]_vars
SpecScan == InitScan /\ [][NextScan]_vars
SpecXlsx == InitXlsx /\ [][Next]_vars

TypeOK ==
    /\ pc \in {"start", "load", "xlsx", "ole", "raw", "done", "raised"}
    /\ Len(images) >= Len(ranges)

(***************************************************************************)
(* Properties.                                                             *)
(***************************************************************************)
\* the bytes of the container a scanned record was cut from
RangeBytes(r) == Slice(file_bytes, r.start, r.end)

\* the offsets at which sub occurs in s
Occurrences(s, sub) ==
    {p \in 0..(Len(s) - Len(sub)) : s[p + 1] = sub[1] /\ MatchesAt(s, sub, p)}

\* C1: in every record list, on every extraction path, the record at list
\* position i carries index i (counted from 0), and its size_bytes is the
\* number of bytes its base64 text decodes to.
C1_IndexAndSize ==
    \A i \in 1..Len(images) :
        /\ images[i].index = i - 1
        /\ images[i].size_bytes = B64DecodedLen(images[i].base64)

\* C1 witness: a finished run that returned several records.
C1_Witness == pc = "done" /\ Len(images) >= 2

\* C2: no two records of a signature scan cover overlapping byte ranges.
C2_NoOverlap ==
    \A i \in 1..Len(ranges) : \A j \in 1..Len(ranges) :
        i < j => \/ ranges[i].end <= ranges[j].start
                 \/ ranges[j].end <= ranges[i].start

\* C3: a compound document holding exactly one well-formed PNG and one
\* well-formed JPEG, with padding before, between and after them, yields
\* exactly two records, one png and one jpeg, whose size_bytes are the true
\* lengths of the two images.
C3_EmbeddedPair ==
    (pc = "done" /\ file_bytes \in {OleMagic \o b : b \in EmbeddedBodies}) =>
        /\ Len(images) = 2
        /\ {images[i].format : i \in 1..Len(images)} = {"png", "jpeg"}
        /\ \A i \in 1..Len(images) :
              images[i].size_bytes =
                  IF images[i].format = "png" THEN Len(PngImage) ELSE Len(JpegImage)

\* C4 as stated: the byte range of every accepted PNG candidate holds exactly
\* one PNG start signature, at its offset 0, and exactly one IEND marker, and
\* the range ends 12 bytes after that marker or at the end of the container.
C4_SingleSignature ==
    pc = "done" =>
        \A i \in 1..Len(ranges) :
            ranges[i].format = "png" =>
                LET r == RangeBytes(ranges[i])
                IN  /\ Occurrences(r, png_signature) = {0}
                    /\ Cardinality(Occurrences(r, IendMarker)) = 1
                    /\ Slice(r, 0, Find(r, IendMarker, 0) + 12) = r

\* C4 amended: the byte range of every accepted PNG candidate starts with a
\* PNG signature, and cutting it again from its first signature to 12 bytes
\* past its first IEND marker (or to its end) gives the same range; the range
\* may hold further PNG signatures.
C4_RescanSameRange ==
    pc = "done" =>
        \A i \in 1..Len(ranges) :
            ranges[i].format = "png" =>
                LET r == RangeBytes(ranges[i])
                    first_iend == Find(r, IendMarker, 0)
                IN  /\ Find(r, png_signature, 0) = 0
                    /\ first_iend # -1
                    /\ Slice(r, 0, first_iend + 12) = r

\* C4 witness: an accepted PNG candidate whose range holds two signatures.
C4_Witness ==
    /\ pc = "done"
    /\ \E i \in 1..Len(ranges) :
          /\ ranges[i].format = "png"
          /\ Cardinality(Occurrences(RangeBytes(ranges[i]), png_signature)) = 2

\* C5: every record of the first scan is longer than 100 bytes and every
\* record of the second scan longer than 200 bytes; a scan never ends in an
\* error.
C5_MinimumSize ==
    /\ \A i \in 1..Len(ranges) :
          /\ ranges[i].method = "ole" => images[i].size_bytes > 100
          /\ ranges[i].method = "raw" => images[i].size_bytes > 200
    /\ file_format = "xls" => pc # "raised"

\* C5 witness: a finished scan that returned a record and passed over a
\* terminated candidate of at most 100 bytes.
C5_Witness ==
    /\ pc = "done"
    /\ images # <<>>
    /\ \E k \in 1..Len(considered) :
          LET v == considered[k]
              d == OleImgData(file_bytes, v.pos, v.pass)
          IN  v.method = "ole" /\ d # None /\ Len(d) <= 100

\* the container went to the signature scanner
Scanned == file_format = "xls" /\ pc \in {"ole", "raw", "done"}

RECURSIVE ReadableIn(_, _)
ReadableIn(imgs, name) ==
    IF imgs = <<>> THEN <<>>
    ELSE (IF Readable(Head(imgs))
          THEN <<<<name, Len(ImageData(Head(imgs)))>>>>
          ELSE <<>>) \o ReadableIn(Tail(imgs), name)

\* the readable images of sheets k, k + 1, ...
RECURSIVE DeclaredParts(_, _)
DeclaredParts(sheets, k) ==
    IF k > Len(sheets) THEN <<>>
    ELSE ReadableIn(sheets[k], SheetNames[k]) \o DeclaredParts(sheets, k + 1)

\* C7: a container that starts with the archive marker never reaches the
\* signature scanner; its result holds one record per readable declared
\* image, in order, and is empty when there is none.
C7_ArchiveNeverScanned ==
    (pc # "start" /\ detect_excel_format(file_bytes) = "xlsx") =>
        /\ pc \notin {"ole", "raw"}
        /\ ranges = <<>>
        /\ considered = <<>>
        /\ pc = "done" =>
              [i \in 1..Len(images) |-> <<images[i].sheet, images[i].size_bytes>>]
                  = DeclaredParts(wb.sheets, 1)

\* C7 witness: an archive without declared images whose bytes hold a PNG
\* signature returns the empty list.
C7_Witness ==
    /\ pc = "done"
    /\ detect_excel_format(file_bytes) = "xlsx"
    /\ images = <<>>
    /\ Find(file_bytes, png_signature, 0) # -1

FormatRank(fmt) == IF fmt = "png" THEN 1 ELSE IF fmt = "jpeg" THEN 2 ELSE 3

\* every loop visits its matches once each, in increasing offset order, one
\* loop after the other
VisitsInOrder ==
    \A i \in 1..Len(considered) : \A j \in 1..Len(considered) :
        (i < j /\ considered[i].method = considered[j].method) =>
            /\ considered[i].pass <= considered[j].pass
            /\ considered[i].pass = considered[j].pass =>
                  considered[i].pos < considered[j].pos

\* a finished scan has visited every occurrence of every signature
VisitsExhaustive ==
    pc = "done" =>
        \A p \in 1..Len(OleSignatures) :
            \A q \in Occurrences(file_bytes, OleSignatures[p]) :
                \E k \in 1..Len(considered) : considered[k] = Visit("ole", p, q)

\* the second scan ran: the first one returned no record
RawRan ==
    /\ pc = "done"
    /\ file_format = "xls"
    /\ \A i \in 1..Len(ranges) : ranges[i].method = "raw"

\* a finished second scan has visited every occurrence of its signatures
RawVisitsExhaustive ==
    RawRan =>
        \A p \in 1..Len(RawSignatures) :
            \A q \in Occurrences(file_bytes, RawSignatures[p]) :
                \E k \in 1..Len(considered) : considered[k] = Visit("raw", p, q)

\* C8 as stated: records are ordered by format (PNG, JPEG, GIF), and the
\* records of one format by increasing start offset; every signature match
\* is visited once, in increasing offset order.
C8_FormatOffsetOrder ==
    /\ VisitsInOrder
    /\ \A i \in 1..Len(ranges) : \A j \in 1..Len(ranges) :
          i < j =>
              /\ FormatRank(ranges[i].format) <= FormatRank(ranges[j].format)
              /\ ranges[i].format = ranges[j].format =>
                    ranges[i].start < ranges[j].start

\* C8 amended: records are ordered by format (PNG, JPEG, GIF) and by
\* signature loop, and the records of one signature loop by increasing start
\* offset (GIF has two loops, one per version string, so GIF records of
\* different versions are not ordered by offset); every loop visits each of
\* its matches once, in increasing offset order, and a finished scan has
\* visited them all.
C8_LoopOffsetOrder ==
    /\ VisitsInOrder
    /\ VisitsExhaustive
    /\ RawVisitsExhaustive
    /\ \A i \in 1..Len(ranges) : \A j \in 1..Len(ranges) :
          i < j =>
              /\ FormatRank(ranges[i].format) <= FormatRank(ranges[j].format)
              /\ ranges[i].pass <= ranges[j].pass
              /\ ranges[i].pass = ranges[j].pass =>
                    ranges[i].start < ranges[j].start

\* C8 witness: two GIF records, the later one starting at the lower offset.
C8_Witness ==
    /\ pc = "done"
    /\ \E i \in 1..Len(ranges) : \E j \in 1..Len(ranges) :
          /\ i < j
          /\ ranges[i].format = ranges[j].format
          /\ ranges[i].start > ranges[j].start

\* image j of sheet k has been through the loop body
Processed(k, j) ==
    /\ pc \in {"xlsx", "done"}
    /\ file_format = "xlsx"
    /\ k < sheet_i \/ (k = sheet_i /\ j < img_j)

\* C9: for every image with an anchor at column col >= 0 and row row >= 0,
\* the cell reference is one letter A..Z followed by the decimal number
\* row + 1; so the cell of every record that has one starts with a letter
\* A..Z.
C9_CellLetter ==
    /\ \A k \in 1..Len(wb.sheets) : \A j \in 1..Len(wb.sheets[k]) :
          LET anchor == wb.sheets[k][j].anchor
              cell == get_anchor_cell(anchor)
          IN  (Processed(k, j) /\ anchor # None /\ anchor[1] >= 0 /\ anchor[2] >= 0) =>
                  /\ cell[1] \in 65..90
                  /\ SubSeq(cell, 2, Len(cell)) = Digits(anchor[2] + 1)
    /\ \A i \in 1..Len(images) :
          images[i].cell # None => images[i].cell[1] \in 65..90

\* C10: the second scan runs only after the first scan returned no record,
\* and every record it returns is a GIF.
C10_RawOnlyGif ==
    /\ (pc = "raw" \/ \E k \in 1..Len(considered) : considered[k].method = "raw") =>
          \A i \in 1..Len(ranges) : ranges[i].method = "raw"
    /\ \A i \in 1..Len(ranges) :
          ranges[i].method = "raw" => images[i].format = "gif"

\* C10 witness: a finished run whose record comes from the second scan.
C10_Witness ==
    /\ pc = "done"
    /\ \E i \in 1..Len(ranges) : ranges[i].method = "raw"

=============================================================================
